---------------------------- MODULE Spec2Model ----------------------------
(***************************************************************************)
(* A model of the maklogger console log formatter (package maklogger).     *)
(*                                                                         *)
(* Text is a sequence of characters.  A character is a one-character TLA+  *)
(* string; the escape byte 0x1B is written "ESC" and a non-ASCII code      *)
(* point is written "U+XXXX".  All output is produced character by         *)
(* character as the Go code produces it.                                   *)
(***************************************************************************)
EXTENDS Integers, Sequences, FiniteSets, TLC

VARIABLES
    loggers,        \* the MakLogger instances constructed so far
    colorsEnabled,  \* MakLogger.colorsEnabled of every instance
    panicked,       \* a panic has left a public call
    stdout,         \* the writes the latest public call made to os.Stdout
    op,             \* the latest public call and its arguments
    lin,            \* the arguments drawn for one level call on its own
    fin, fout, fdone,   \* formatFieldsAsJSON applied to an argument
    cin, cout, cdone,   \* ColorizeIfEnabled applied to arguments
    din,            \* the arguments drawn for a call made inside the package
    dci,            \* what getCallerInfo returned to that call
    ddone,          \* that call has returned
    stream,         \* os.Stdout as goroutines write to it: who wrote what
    gpc,            \* where each goroutine is in its level call
    gcall,          \* the level call of each goroutine
    rpc,            \* where the level call racing with the setter is in log
    reads,          \* the values of mk.colorsEnabled that call has read
    setsDuring      \* SetColorsEnabled calls made while that call runs

vars == <<loggers, colorsEnabled, panicked, stdout, op, lin,
          fin, fout, fdone, cin, cout, cdone, din, dci, ddone,
          stream, gpc, gcall, rpc, reads, setsDuring>>

mainVars == <<loggers, colorsEnabled, panicked, stdout, op, lin>>
fieldVars == <<fin, fout, fdone>>
colorVars == <<cin, cout, cdone>>
directVars == <<din, dci, ddone>>
streamVars == <<stream, gpc, gcall>>
raceVars == <<rpc, reads, setsDuring>>

-----------------------------------------------------------------------------
(* Bounds of the model. *)

\* the longest field sequence handed to formatFieldsAsJSON on its own
MaxFields == 2
\* the longest field sequence handed to a level call on its own
MaxLogFields == 2
\* the longest field sequence handed to a level call in a session
MaxSessionFields == 1
\* the most background colours handed to Colorize
MaxBg == 2

-----------------------------------------------------------------------------
(* Text helpers: what strings.Contains, strings.Split, strings.Join,       *)
(* strconv.Itoa and fmt's %s do on character sequences.                    *)

ESC == "ESC"
SP == <<" ">>
NL == <<"\n">>

RECURSIVE Concat(_)
Concat(parts) ==
    IF parts = <<>> THEN <<>> ELSE Head(parts) \o Concat(Tail(parts))

HasPrefixAt(s, i, p) ==
    /\ i + Len(p) - 1 <= Len(s)
    /\ \A k \in 1..Len(p) : s[i + k - 1] = p[k]

Contains(s, sub) ==
    \E i \in 1..(Len(s) + 1) : HasPrefixAt(s, i, sub)

HasEsc(s) == \E i \in 1..Len(s) : s[i] = ESC

Repeat(s, n) == Concat([k \in 1..n |-> s])

\* the least member of a non-empty set of positions
MinOf(S) == CHOOSE i \in S : \A j \in S : i <= j

\* strings.Split(s, sep) for a one-character separator
RECURSIVE Split(_, _)
Split(s, sep) ==
    LET at == {i \in 1..Len(s) : s[i] = sep}
    IN  IF at = {} THEN <<s>>
        ELSE <<SubSeq(s, 1, MinOf(at) - 1)>>
             \o Split(SubSeq(s, MinOf(at) + 1, Len(s)), sep)

\* strings.Join(parts, sep)
RECURSIVE Join(_, _)
Join(parts, sep) ==
    IF parts = <<>> THEN <<>>
    ELSE IF Len(parts) = 1 THEN parts[1]
    ELSE parts[1] \o sep \o Join(Tail(parts), sep)

Digits == <<"0", "1", "2", "3", "4", "5", "6", "7", "8", "9">>

\* strconv.Itoa for a non-negative integer
RECURSIVE Itoa(_)
Itoa(n) ==
    IF n < 10 THEN <<Digits[n + 1]>>
    ELSE Itoa(n \div 10) \o <<Digits[(n % 10) + 1]>>

-----------------------------------------------------------------------------
(* colors.go: the palette, Colorize and ColorizeIfEnabled.                 *)

\* an ANSI sequence "\033[" code "m"
Sgr(code) == <<ESC, "[">> \o code \o <<"m">>

Reset == Sgr(<<"0">>)
Bold == Sgr(<<"1">>)
BoldWhite == Sgr(<<"1", ";", "9", "7">>)
Red == Sgr(<<"3", "1">>)
Green == Sgr(<<"3", "2">>)
Yellow == Sgr(<<"3", "3">>)
Magenta == Sgr(<<"3", "5">>)
Cyan == Sgr(<<"3", "6">>)
BrightBlack == Sgr(<<"9", "0">>)
BrightRed == Sgr(<<"9", "1">>)
BrightGreen == Sgr(<<"9", "2">>)
BrightYellow == Sgr(<<"9", "3">>)
BrightBlue == Sgr(<<"9", "4">>)
BrightMagenta == Sgr(<<"9", "5">>)
BrightCyan == Sgr(<<"9", "6">>)
BrightWhite == Sgr(<<"9", "7">>)
BgBlack == Sgr(<<"4", "0">>)
BgRed == Sgr(<<"4", "1">>)
BgGreen == Sgr(<<"4", "2">>)
BgYellow == Sgr(<<"4", "3">>)
BgBlue == Sgr(<<"4", "4">>)
BgMagenta == Sgr(<<"4", "5">>)
BgBrightRed == Sgr(<<"1", "0", "1">>)

\* every escape sequence colors.go declares: those the logger uses, by name,
\* and the rest of the palette
Palette ==
    {Reset, Bold, BoldWhite, Red, Green,
     Yellow, Magenta, Cyan, BrightBlack, BrightRed,
     BrightGreen, BrightYellow, BrightBlue, BrightMagenta, BrightCyan,
     BrightWhite, BgBlack, BgRed, BgGreen, BgYellow,
     BgBlue, BgMagenta, BgBrightRed,
     Sgr(<<"2">>),                  \* Dim
     Sgr(<<"3">>),                  \* Italic
     Sgr(<<"4">>),                  \* Underline
     Sgr(<<"5">>),                  \* Blink
     Sgr(<<"7">>),                  \* Inverse
     Sgr(<<"8">>),                  \* Hidden
     Sgr(<<"9">>),                  \* Strikethrough
     Sgr(<<"9", "0">>),             \* Gray
     Sgr(<<"2", ";", "3", "7">>),   \* DarkGray
     Sgr(<<"3", "0">>),             \* Black
     Sgr(<<"3", "4">>),             \* Blue
     Sgr(<<"3", "7">>),             \* White
     Sgr(<<"4", "6">>),             \* BgCyan
     Sgr(<<"4", "7">>),             \* BgWhite
     Sgr(<<"1", "0", "0">>),        \* BgBrightBlack
     Sgr(<<"1", "0", "2">>),        \* BgBrightGreen
     Sgr(<<"1", "0", "3">>),        \* BgBrightYellow
     Sgr(<<"1", "0", "4">>),        \* BgBrightBlue
     Sgr(<<"1", "0", "5">>),        \* BgBrightMagenta
     Sgr(<<"1", "0", "6">>),        \* BgBrightCyan
     Sgr(<<"1", "0", "7">>)}        \* BgBrightWhite

\* a Colorize that forgets the text it frames
ColorizeDropsText(text, fg, bg) ==
    IF Len(bg) > 0 THEN Concat(<<fg, bg[1], Reset>>)
    ELSE Concat(<<fg, Reset>>)

\* Colorize(text, fg, bg...): bg is the variadic slice
Colorize(text, fg, bg) ==
    IF Len(bg) > 0 THEN Concat(<<fg, bg[1], text, Reset>>)
    ELSE Concat(<<fg, text, Reset>>)

\* a ColorizeIfEnabled that ignores the flag
ColorizeAlways(text, enabled, fg, bg) == Colorize(text, fg, bg)

\* ColorizeIfEnabled(text, enabled, fg, bg...)
ColorizeIfEnabled(text, enabled, fg, bg) ==
    IF ~enabled THEN text
    ELSE Colorize(text, fg, bg)

-----------------------------------------------------------------------------
(* encoding/json as formatFieldsAsJSON uses it.  A value of type any is a  *)
(* tagged tuple: <<"int", n>>, <<"string", text>>, <<"null">>,             *)
(* <<"map", f>> (f a function from key text to values), <<"array", seq>>,  *)
(* <<"chan">> (a type the encoder does not support) and                    *)
(* <<"marshaler", text>> (a value whose MarshalJSON fails with that text). *)

\* the characters keys are made of, in ascending byte order
ByteOrder == <<"B", "a", "b", "e", "k", "o", "r">>

Ord(c) == CHOOSE i \in DOMAIN ByteOrder : ByteOrder[i] = c

\* s < t as Go compares strings
RECURSIVE StrLess(_, _)
StrLess(s, t) ==
    IF t = <<>> THEN FALSE
    ELSE IF s = <<>> THEN TRUE
    ELSE IF Head(s) = Head(t) THEN StrLess(Tail(s), Tail(t))
    ELSE Ord(Head(s)) < Ord(Head(t))

\* keys sorted the wrong way round
RECURSIVE SortedKeysDescending(_)
SortedKeysDescending(keys) ==
    IF keys = {} THEN <<>>
    ELSE LET k == CHOOSE x \in keys : \A y \in keys : y = x \/ StrLess(y, x)
         IN  <<k>> \o SortedKeysDescending(keys \ {k})

\* the keys of a map in the order the encoder writes them (sorted)
RECURSIVE SortedKeys(_)
SortedKeys(keys) ==
    IF keys = {} THEN <<>>
    ELSE LET k == CHOOSE x \in keys : \A y \in keys : y = x \/ StrLess(x, y)
         IN  <<k>> \o SortedKeys(keys \ {k})

\* one character of a JSON string, escaped as the encoder escapes it
EscapeChar(c) ==
    IF c = "\"" THEN <<"\\", "\"">>
    ELSE IF c = "\\" THEN <<"\\", "\\">>
    ELSE IF c = "\n" THEN <<"\\", "n">>
    ELSE IF c = ESC THEN <<"\\", "u", "0", "0", "1", "b">>
    ELSE IF c = "<" THEN <<"\\", "u", "0", "0", "3", "c">>
    ELSE IF c = ">" THEN <<"\\", "u", "0", "0", "3", "e">>
    ELSE IF c = "&" THEN <<"\\", "u", "0", "0", "2", "6">>
    ELSE <<c>>

\* a Go string as a JSON string literal
Quote(s) ==
    <<"\"">> \o Concat([i \in 1..Len(s) |-> EscapeChar(s[i])]) \o <<"\"">>

UnsupportedType ==
    <<"j", "s", "o", "n", ":", " ", "u", "n", "s", "u", "p", "p", "o", "r",
      "t", "e", "d", " ", "t", "y", "p", "e", ":", " ", "c", "h", "a", "n",
      " ", "i", "n", "t">>

MarshalerFailed ==
    <<"j", "s", "o", "n", ":", " ", "e", "r", "r", "o", "r", " ", "c", "a",
      "l", "l", "i", "n", "g", " ", "M", "a", "r", "s", "h", "a", "l", "J",
      "S", "O", "N", " ", "f", "o", "r", " ", "t", "y", "p", "e", " ", "m",
      "a", "i", "n", ".", "B", "a", "d", ":", " ">>

\* the first non-empty text of a sequence of texts, <<>> when there is none
RECURSIVE FirstNonEmpty(_)
FirstNonEmpty(texts) ==
    IF texts = <<>> THEN <<>>
    ELSE IF Head(texts) # <<>> THEN Head(texts)
    ELSE FirstNonEmpty(Tail(texts))

\* the error json.Marshal returns for v (its Error() text), <<>> when none:
\* the encoder stops at the first value it cannot encode, maps in key order
RECURSIVE EncodeError(_)
EncodeError(v) ==
    IF v[1] = "chan" THEN UnsupportedType
    ELSE IF v[1] = "marshaler" THEN MarshalerFailed \o v[2]
    ELSE IF v[1] = "map" THEN
        LET ks == SortedKeys(DOMAIN v[2])
        IN  FirstNonEmpty([i \in 1..Len(ks) |-> EncodeError(v[2][ks[i]])])
    ELSE IF v[1] = "array" THEN
        FirstNonEmpty([i \in 1..Len(v[2]) |-> EncodeError(v[2][i])])
    ELSE <<>>

\* the line break json.Indent writes before an element at nesting depth d
NewLine(prefix, indent, d) == NL \o prefix \o Repeat(indent, d)

\* the bytes json.MarshalIndent produces for an encodable v at depth d: the
\* first line carries neither prefix nor indentation
RECURSIVE Indented(_, _, _, _)
Indented(v, prefix, indent, d) ==
    IF v[1] = "int" THEN Itoa(v[2])
    ELSE IF v[1] = "string" THEN Quote(v[2])
    ELSE IF v[1] = "map" THEN
        IF DOMAIN v[2] = {} THEN <<"{", "}">>
        ELSE LET ks == SortedKeys(DOMAIN v[2])
                 entry(i) == Quote(ks[i]) \o <<":", " ">>
                             \o Indented(v[2][ks[i]], prefix, indent, d + 1)
             IN  <<"{">> \o NewLine(prefix, indent, d + 1)
                 \o Join([i \in 1..Len(ks) |-> entry(i)],
                         <<",">> \o NewLine(prefix, indent, d + 1))
                 \o NewLine(prefix, indent, d) \o <<"}">>
    ELSE IF v[1] = "array" THEN
        IF v[2] = <<>> THEN <<"[", "]">>
        ELSE <<"[">> \o NewLine(prefix, indent, d + 1)
             \o Join([i \in 1..Len(v[2]) |->
                          Indented(v[2][i], prefix, indent, d + 1)],
                     <<",">> \o NewLine(prefix, indent, d + 1))
             \o NewLine(prefix, indent, d) \o <<"]">>
    ELSE IF v[1] = "null" THEN <<"n", "u", "l", "l">>
    ELSE <<>>

\* json.MarshalIndent(v, prefix, indent): (jsonBytes, err)
MarshalIndent(v, prefix, indent) ==
    LET e == EncodeError(v)
    IN  IF e # <<>> THEN [ok |-> FALSE, bytes |-> <<>>, err |-> e]
        ELSE [ok |-> TRUE, bytes |-> Indented(v, prefix, indent, 0),
              err |-> <<>>]

-----------------------------------------------------------------------------
(* maklogger.go: formatFieldsAsJSON.  A Field is [Key, Value].             *)

\* a map assignment that keeps the value a key already has
MapSetKeepFirst(m, k, val) ==
    IF k \in DOMAIN m THEN m
    ELSE [x \in (DOMAIN m) \cup {k} |-> IF x = k THEN val ELSE m[x]]

\* fieldMap[k] = val
MapSet(m, k, val) ==
    [x \in (DOMAIN m) \cup {k} |-> IF x = k THEN val ELSE m[x]]

\* the loop "for _, field := range fields { fieldMap[field.Key] = field.Value }"
RECURSIVE BuildFieldMap(_, _)
BuildFieldMap(fields, m) ==
    IF fields = <<>> THEN m
    ELSE BuildFieldMap(Tail(fields),
                       MapSet(m, Head(fields).Key, Head(fields).Value))

EmptyMap == [x \in {} |-> <<"null">>]

FailedToMarshal ==
    <<"f", "a", "i", "l", "e", "d", " ", "t", "o", " ", "m", "a", "r", "s",
      "h", "a", "l", " ", "f", "i", "e", "l", "d", "s", ":", " ">>

\* a fallback that puts the error object on one line
FallbackBlockOneLine(e) ==
    <<"{", "\"", "e", "r", "r", "o", "r", "\"", ":", " ", "\"">> \o e
    \o <<"\"", "}">>

\* the block returned when json.MarshalIndent fails with description e
FallbackBlock(e) ==
    Concat(<< <<" ", " ", "{">>, NL,
              <<" ", " ", " ", " ", "\"", "e", "r", "r", "o", "r", "\"", ":",
                " ", "\"">>, FailedToMarshal, e, <<"\"">>, NL,
              <<" ", " ", "}">> >>)

\* the loop that puts two spaces before every line of the JSON
IndentLines(lines) == [i \in 1..Len(lines) |-> <<" ", " ">> \o lines[i]]

formatFieldsAsJSON(fields) ==
    IF Len(fields) = 0 THEN <<>>
    ELSE LET fieldMap == BuildFieldMap(fields, EmptyMap)
             r == MarshalIndent(<<"map", fieldMap>>, <<" ", " ">>, <<" ", " ">>)
         IN  IF ~r.ok THEN FallbackBlock(r.err)
             ELSE Join(IndentLines(Split(r.bytes, "\n")), NL)

-----------------------------------------------------------------------------
(* The field values and field sequences the model draws its inputs from.   *)

KeyA == <<"a">>
KeyAB == <<"a", "b">>
KeyB == <<"B">>
Keys == {KeyA, KeyAB, KeyB}

IntOne == <<"int", 1>>
IntTwelve == <<"int", 12>>
\* the string a"<ESC>
StrValue == <<"string", <<"a", "\"", ESC>> >>
\* map[string]any{"k": []any{1, nil}}
NestedValue ==
    <<"map", [x \in {<<"k">>} |-> <<"array", <<IntOne, <<"null">> >> >>] >>
ChanValue == <<"chan">>
\* a json.Marshaler that fails with a colored error text
BadMarshaler == <<"marshaler", Red \o <<"b", "o", "o", "m">> \o Reset>>

Values == {IntOne, IntTwelve, StrValue, NestedValue, ChanValue, BadMarshaler}

AllFields == [Key : Keys, Value : Values]

\* the sequences over S of length at most n
SeqsUpTo(S, n) == UNION {[1..k -> S] : k \in 0..n}

FieldSeqs == SeqsUpTo(AllFields, MaxFields)

-----------------------------------------------------------------------------
(* formatFieldsAsJSON on its own: Init draws the argument, Format applies  *)
(* the function.                                                           *)

\* no logger has been constructed
Idle ==
    /\ loggers = {}
    /\ colorsEnabled = <<>>
    /\ panicked = FALSE
    /\ stdout = <<>>
    /\ op = <<>>
    /\ lin = <<>>

\* no call is made from inside the package, none by concurrent goroutines
NoDirect == din = <<>> /\ dci = <<>> /\ ddone = FALSE
NoStream == stream = <<>> /\ gpc = <<>> /\ gcall = <<>>
NoRace == rpc = 0 /\ reads = <<>> /\ setsDuring = 0
Quiet == NoDirect /\ NoStream /\ NoRace

NoColorCall == [text |-> <<>>, enabled |-> FALSE, fg |-> <<>>, bg |-> <<>>]

InitFields ==
    /\ Idle
    /\ fin \in FieldSeqs
    /\ fout = <<>>
    /\ fdone = FALSE
    /\ cin = NoColorCall /\ cout = <<>> /\ cdone = FALSE
    /\ Quiet

Format ==
    /\ ~fdone
    /\ fout' = formatFieldsAsJSON(fin)
    /\ fdone' = TRUE
    /\ UNCHANGED <<fin, mainVars, colorVars, directVars, streamVars, raceVars>>

NextFields == Format

SpecFields == InitFields /\ [][NextFields]_vars

-----------------------------------------------------------------------------
(* Reading a field block back: its lines, their indentation, its keys.     *)

Lines(block) == Split(block, "\n")

\* the number of spaces a line starts with
Indentation(line) ==
    MinOf({i \in 1..Len(line) : line[i] # " "} \cup {Len(line) + 1}) - 1

\* the number of places where sub occurs in s
Occurrences(s, sub) ==
    Cardinality({i \in 1..Len(s) : HasPrefixAt(s, i, sub)})

\* the key a line of the form  <spaces>"key": ...  carries
KeyOfLine(line) ==
    LET q == Indentation(line) + 1
        close == MinOf({i \in (q + 1)..Len(line) : line[i] = "\""})
    IN  SubSeq(line, q + 1, close - 1)

IsKeyLine(line, ind) ==
    /\ Indentation(line) = ind
    /\ Len(line) > ind + 1
    /\ line[ind + 1] = "\""

\* the keys of the object's own entries, in the order the block lists them:
\* the entries are the lines indented like the line after the opening brace
TopKeys(block) ==
    LET ls == Lines(block)
        ind == Indentation(ls[2])
        at == {i \in 1..Len(ls) : IsKeyLine(ls[i], ind)}
        RECURSIVE Collect(_)
        Collect(S) == IF S = {} THEN <<>>
                      ELSE <<KeyOfLine(ls[MinOf(S)])>> \o Collect(S \ {MinOf(S)})
    IN  IF Len(ls) < 3 THEN <<>> ELSE Collect(at)

KeysOf(fields) == {fields[i].Key : i \in 1..Len(fields)}

\* the field sequence collapses to a mapping the encoder accepts
Serializes(fields) ==
    EncodeError(<<"map", BuildFieldMap(fields, EmptyMap)>>) = <<>>

\* the entry of key k with encodable value v as it stands in the block, whose
\* lines begin with the two spaces added to the encoder's two-space prefix
EntryText(k, v) ==
    Quote(k) \o <<":", " ">>
    \o Indented(v, <<" ", " ", " ", " ">>, <<" ", " ">>, 1)

\* the block holds the entry  "k": v  whole, ended by a comma or a line end
HasEntry(block, k, v) ==
    \/ Contains(block, EntryText(k, v) \o <<",">>)
    \/ Contains(block, EntryText(k, v) \o NL)

\* the positions at which fields carries key k
PositionsOf(fields, k) == {i \in 1..Len(fields) : fields[i].Key = k}

LastOf(fields, k) ==
    CHOOSE i \in PositionsOf(fields, k) : \A j \in PositionsOf(fields, k) : j <= i

DuplicatedKeys(fields) ==
    {k \in KeysOf(fields) : Cardinality(PositionsOf(fields, k)) > 1}

\* key k is rendered once, with the value of its last occurrence, and no
\* different value of an earlier occurrence is rendered for it
LastWins(block, fields, k) ==
    LET last == fields[LastOf(fields, k)].Value
    IN  /\ Occurrences(block, Quote(k) \o <<":", " ">>) = 1
        /\ EncodeError(last) = <<>>
        /\ HasEntry(block, k, last)
        /\ \A i \in PositionsOf(fields, k) :
               (EncodeError(fields[i].Value) = <<>>
                  /\ EntryText(k, fields[i].Value) # EntryText(k, last))
               => ~HasEntry(block, k, fields[i].Value)

\* the rearrangements of a sequence
Rearrangements(q) ==
    {[i \in 1..Len(q) |-> q[f[i]]] :
        f \in {g \in [1..Len(q) -> 1..Len(q)] :
                  \A a, b \in 1..Len(q) : g[a] = g[b] => a = b}}

DistinctKeys(fields) == Cardinality(KeysOf(fields)) = Len(fields)

Ascending(keys) ==
    \A i, j \in 1..Len(keys) : i < j => StrLess(keys[i], keys[j])

-----------------------------------------------------------------------------
(* Claims about formatFieldsAsJSON, checked under SpecFields.              *)

\* C3 (as stated): a non-empty field sequence that serializes yields the
\* two-space pretty-printed object shifted right by two spaces: first line
\* "  {", entries at exactly four spaces, last line "  }", every line at
\* least two spaces in.
C3_BlockShiftedByTwo ==
    (fdone /\ fin # <<>> /\ Serializes(fin)) =>
        LET ls == Lines(fout)
            plain == Indented(<<"map", BuildFieldMap(fin, EmptyMap)>>,
                              <<>>, <<" ", " ">>, 0)
        IN  /\ ls[1] = <<" ", " ", "{">>
            /\ ls[Len(ls)] = <<" ", " ", "}">>
            /\ Indentation(ls[2]) = 4
            /\ \A i \in 1..Len(ls) : Indentation(ls[i]) >= 2
            /\ ls = IndentLines(Lines(plain))

\* C5 (as stated): for every field sequence, a key passed more than once is
\* rendered exactly once, with the value of its last occurrence.
C5_LastWriteWinsAlways ==
    fdone => \A k \in DuplicatedKeys(fin) : LastWins(fout, fin, k)

\* C5 (amended): when the collapsed mapping serializes, a key passed more
\* than once is rendered exactly once, with the value of its last
\* occurrence, and no differing value of an earlier occurrence is rendered.
C5_LastWriteWins ==
    (fdone /\ Serializes(fin)) =>
        \A k \in DuplicatedKeys(fin) : LastWins(fout, fin, k)

\* a key passed twice with different values, the first of them one the
\* encoder rejects, has been formatted
C5_Witness ==
    /\ fdone
    /\ Serializes(fin)
    /\ Len(fin) >= 2
    /\ fin[1].Key = fin[2].Key
    /\ fin[1].Value = ChanValue
    /\ fin[2].Value = IntTwelve

\* C6: the block lists its keys in ascending order whatever the order the
\* fields were passed in: every rearrangement of distinct-key fields gives
\* the same text, and a block that serializes lists exactly the passed keys.
C6_KeysSortedOrderIrrelevant ==
    fdone =>
        /\ Ascending(TopKeys(fout))
        /\ Serializes(fin) =>
               {TopKeys(fout)[i] : i \in 1..Len(TopKeys(fout))} = KeysOf(fin)
        /\ DistinctKeys(fin) =>
               \A q \in Rearrangements(fin) : formatFieldsAsJSON(q) = fout

\* two fields passed with the greater key first have been formatted
C6_Witness ==
    /\ fdone
    /\ Len(fin) = 2
    /\ Serializes(fin)
    /\ StrLess(fin[2].Key, fin[1].Key)
    /\ TopKeys(fout) = <<fin[2].Key, fin[1].Key>>

-----------------------------------------------------------------------------
(* ColorizeIfEnabled on its own: Init draws the arguments, Apply calls it. *)

ColorTexts == {<<>>, <<"t", "e", "s", "t">>, Red \o <<"x">> \o Reset}
\* Color is a string type: the empty Color is a value of it
Foregrounds == {Red, BoldWhite, <<>>}
Backgrounds == {BgBlue, BgBrightRed}

ColorCalls ==
    [text : ColorTexts, enabled : BOOLEAN, fg : Foregrounds,
     bg : SeqsUpTo(Backgrounds, MaxBg)]

InitColor ==
    /\ Idle
    /\ fin = <<>> /\ fout = <<>> /\ fdone = FALSE
    /\ cin \in ColorCalls
    /\ cout = <<>>
    /\ cdone = FALSE
    /\ Quiet

Apply ==
    /\ ~cdone
    /\ cout' = ColorizeIfEnabled(cin.text, cin.enabled, cin.fg, cin.bg)
    /\ cdone' = TRUE
    /\ UNCHANGED <<cin, mainVars, fieldVars, directVars, streamVars, raceVars>>

NextColor == Apply

SpecColor == InitColor /\ [][NextColor]_vars

\* C7: with the flag false ColorizeIfEnabled returns the text unchanged;
\* with it true the result is Colorize's: fg, then the first background if
\* any was given, then the text, then Reset, so it differs from the text
\* and contains it.
C7_ColorizeIfEnabled ==
    cdone =>
        IF ~cin.enabled THEN cout = cin.text
        ELSE /\ cout = Colorize(cin.text, cin.fg, cin.bg)
             /\ cout = cin.fg
                       \o (IF cin.bg = <<>> THEN <<>> ELSE cin.bg[1])
                       \o cin.text \o <<ESC, "[", "0", "m">>
             /\ cout # cin.text
             /\ Contains(cout, cin.text)

\* an enabled call given two different backgrounds has returned
C7_Witness ==
    /\ cdone
    /\ cin.enabled
    /\ Len(cin.bg) = 2
    /\ cin.bg[1] # cin.bg[2]
    /\ cin.text # <<>>

-----------------------------------------------------------------------------
(* The caller resolver: getCallerInfo over the goroutine's call stack.  A  *)
(* stack is a sequence of frames, innermost first; a frame is              *)
(* [file, line, fn, hasFn], hasFn false when runtime.FuncForPC has no      *)
(* function for the frame's pc.                                            *)

Sentinel == <<"?", "?", "?">>

\* the greatest member of a non-empty set of positions
MaxOf(S) == CHOOSE i \in S : \A j \in S : j <= i

\* filepath.Base on a slash-separated path
Base(path) ==
    LET parts == Split(path, "/")
        named == {i \in 1..Len(parts) : parts[i] # <<>>}
    IN  IF path = <<>> THEN <<".">>
        ELSE IF named = {} THEN <<"/">>
        ELSE parts[MaxOf(named)]

\* the frame of runtime.Caller itself, in the Go runtime's extern.go
RuntimeFrame ==
    [file |-> <<"/", "g", "o", "/", "s", "r", "c", "/", "r", "u", "n",
          "t", "i", "m", "e", "/", "e", "x", "t", "e", "r", "n", ".", "g",
          "o">>, line |-> 331,
     fn |-> <<"r", "u", "n", "t", "i", "m", "e", ".", "C", "a", "l", "l",
           "e", "r">>, hasFn |-> TRUE]

\* a stack walk that stops at the outermost frame when skip goes beyond it
RuntimeCallerOutermost(skip, stack) ==
    IF skip < 0 THEN [ok |-> TRUE, frame |-> RuntimeFrame]
    ELSE IF skip + 1 <= Len(stack)
    THEN [ok |-> TRUE, frame |-> stack[skip + 1]]
    ELSE [ok |-> TRUE, frame |-> stack[Len(stack)]]

\* runtime.Caller(skip) called by the innermost frame of stack: skip 0 is
\* that innermost frame, the caller of Caller; a negative skip ascends no
\* frame and yields the frame of Caller itself
RuntimeCaller(skip, stack) ==
    IF skip < 0 THEN [ok |-> TRUE, frame |-> RuntimeFrame]
    ELSE IF skip + 1 <= Len(stack)
    THEN [ok |-> TRUE, frame |-> stack[skip + 1]]
    ELSE [ok |-> FALSE, frame |-> stack[1]]

Frame(file, line, fn) ==
    [file |-> file, line |-> line, fn |-> fn, hasFn |-> TRUE]

PkgPath ==
    <<"g", "i", "t", "h", "u", "b", ".", "c", "o", "m", "/", "m", "a",
      "k", "h", "k", "e", "t", "s", "/", "m", "a", "k", "l", "o",
      "g", "g", "e", "r", ".">>

\* the frame of getCallerInfo at its runtime.Caller call
CallerInfoFrame ==
    Frame(<<"/", "p", "k", "g", "/", "m", "a", "k", "l", "o", "g", "g", "e",
      "r", "/", "c", "a", "l", "l", "e", "r", ".", "g", "o">>, 205,
          PkgPath \o <<"g", "e", "t", "C", "a", "l", "l", "e", "r", "I", "n", "f", "o">>)

\* getCallerInfo(skip) called by the innermost frame of stack
getCallerInfo(skip, stack) ==
    LET c == RuntimeCaller(skip, <<CallerInfoFrame>> \o stack)
    IN  IF ~c.ok THEN [file |-> Sentinel, line |-> 0, function |-> Sentinel]
        ELSE [file |-> Base(c.frame.file),
              line |-> c.frame.line,
              function |-> IF c.frame.hasFn THEN c.frame.fn ELSE Sentinel]

\* the frame of log at its getCallerInfo call
LogFrame ==
    Frame(<<"/", "p", "k", "g", "/", "m", "a", "k", "l", "o", "g", "g", "e",
      "r", "/", "m", "a", "k", "l", "o", "g", "g", "e", "r", ".",
      "g", "o">>, 101,
          PkgPath \o <<"(", "*", "M", "a", "k", "L", "o", "g", "g", "e", "r", ")", ".",
      "l", "o", "g">>)

\* the frame of a public level method at its log call
EntryFrame(name, line) ==
    Frame(<<"/", "p", "k", "g", "/", "m", "a", "k", "l", "o", "g", "g", "e",
      "r", "/", "m", "a", "k", "l", "o", "g", "g", "e", "r", ".",
      "g", "o">>, line,
          PkgPath \o <<"(", "*", "M", "a", "k", "L", "o", "g", "g", "e", "r", ")", ".">> \o name)

-----------------------------------------------------------------------------
(* time.Now().Format("2006-01-02 15:04:05.000")                            *)

\* n in decimal, zero-padded to w digits
Pad(n, w) ==
    LET d == Itoa(n) IN Repeat(<<"0">>, w - Len(d)) \o d

FormatTime(t) ==
    Concat(<<Pad(t.year, 4), <<"-">>, Pad(t.month, 2), <<"-">>, Pad(t.day, 2),
             SP, Pad(t.hour, 2), <<":">>, Pad(t.min, 2), <<":">>,
             Pad(t.sec, 2), <<".">>, Pad(t.ms, 3)>>)

-----------------------------------------------------------------------------
(* The level presentation table: getColoredLevel and getColoredMessage.    *)

LevelInfo == 0
LevelSuccess == 1
LevelDebug == 2
LevelCritical == 3
LevelError == 4
LevelWarn == 5

Undefined == <<"U", "N", "D", "E", "F", "I", "N", "E", "D">>

\* fmt.Sprintf("%s %s", a, b)
Sprintf2(a, b) == a \o SP \o b

\* a level table that renders every level, known or not, as INFO
getColoredLevelOrInfo(enabled, level) ==
    Sprintf2(ColorizeIfEnabled(<<"U+1F4DD", " ">>, enabled, BrightBlue, <<>>),
             ColorizeIfEnabled(<<"I", "N", "F", "O", " ", " ", " ", " ">>,
                               enabled, BoldWhite, <<BgBlue>>))

getColoredLevel(enabled, level) ==
    IF level = LevelInfo THEN
        Sprintf2(ColorizeIfEnabled(<<"U+1F4DD", " ">>, enabled, BrightBlue, <<>>),
                 ColorizeIfEnabled(<<"I", "N", "F", "O", " ", " ", " ", " ">>,
                                   enabled, BoldWhite, <<BgBlue>>))
    ELSE IF level = LevelSuccess THEN
        Sprintf2(ColorizeIfEnabled(<<"U+2705", " ">>, enabled, BrightGreen, <<>>),
                 ColorizeIfEnabled(<<"S", "U", "C", "C", "E", "S", "S", " ">>,
                                   enabled, BoldWhite, <<BgGreen>>))
    ELSE IF level = LevelDebug THEN
        Sprintf2(ColorizeIfEnabled(<<"U+1F41B", " ">>, enabled, BrightMagenta, <<>>),
                 ColorizeIfEnabled(<<"D", "E", "B", "U", "G", " ", " ", " ">>,
                                   enabled, BoldWhite, <<BgMagenta>>))
    ELSE IF level = LevelCritical THEN
        Sprintf2(ColorizeIfEnabled(<<"U+1F6D1", " ">>, enabled, BrightRed, <<>>),
                 ColorizeIfEnabled(<<"C", "R", "I", "T", "I", "C", "A", "L">>,
                                   enabled, BoldWhite, <<BgBrightRed>>))
    ELSE IF level = LevelError THEN
        Sprintf2(ColorizeIfEnabled(<<"U+274C", " ">>, enabled, BrightRed, <<>>),
                 ColorizeIfEnabled(<<"E", "R", "R", "O", "R", " ", " ", " ">>,
                                   enabled, BoldWhite, <<BgRed>>))
    ELSE IF level = LevelWarn THEN
        Sprintf2(ColorizeIfEnabled(<<"U+26A0", "U+FE0F", " ">>, enabled,
                                   BrightYellow, <<>>),
                 ColorizeIfEnabled(<<"W", "A", "R", "N", "I", "N", "G", " ">>,
                                   enabled, Bold, <<BgYellow>>))
    ELSE Undefined

\* a getColoredMessage that colors the message whatever the flag is
getColoredMessageAlways(enabled, level, message) ==
    Colorize(message, BrightWhite, <<>>)

getColoredMessage(enabled, level, message) ==
    IF level = LevelInfo THEN
        ColorizeIfEnabled(message, enabled, BrightWhite, <<>>)
    ELSE IF level = LevelSuccess THEN
        ColorizeIfEnabled(message, enabled, BrightGreen, <<>>)
    ELSE IF level = LevelDebug THEN
        ColorizeIfEnabled(message, enabled, BrightMagenta, <<>>)
    ELSE IF level = LevelCritical THEN
        ColorizeIfEnabled(message, enabled, BrightRed, <<BgBlack>>)
    ELSE IF level = LevelError THEN
        ColorizeIfEnabled(message, enabled, BrightRed, <<>>)
    ELSE IF level = LevelWarn THEN
        ColorizeIfEnabled(message, enabled, BrightYellow, <<>>)
    ELSE Undefined

-----------------------------------------------------------------------------
(* The line renderer: log.  Its result is the sequence of writes it makes  *)
(* to os.Stdout: fmt.Println and fmt.Printf each make one write.           *)

Bar == <<" ", "U+2502", " ">>

\* a shortening that keeps the part before the first dot
ShortFnFirst(fn) == Split(fn, ".")[1]

\* the function name after its last dot
ShortFn(fn) ==
    LET moduleParts == Split(fn, ".")
    IN  IF Len(moduleParts) > 0 THEN moduleParts[Len(moduleParts)] ELSE fn

\* the location segment
Module(enabled, ci) ==
    Concat(<<ColorizeIfEnabled(<<"U+1F4C1">>, enabled, BrightBlue, <<>>), SP,
             ColorizeIfEnabled(ci.file, enabled, Cyan, <<>>), <<":">>,
             ColorizeIfEnabled(Itoa(ci.line), enabled, BrightCyan, <<>>), SP,
             ColorizeIfEnabled(<<"U+26A1">>, enabled, BrightYellow, <<>>), SP,
             ColorizeIfEnabled(ShortFn(ci.function), enabled, Magenta, <<>>)>>)

\* the message line
Message(enabled, level, msg, now, ci) ==
    Concat(<<ColorizeIfEnabled(<<"U+1F552", " ">>, enabled, BrightGreen, <<>>),
             SP,
             ColorizeIfEnabled(FormatTime(now), enabled, Green, <<>>),
             Bar, getColoredLevel(enabled, level),
             Bar, Module(enabled, ci),
             Bar,
             ColorizeIfEnabled(<<"U+1F4AC", " ">>, enabled, BrightWhite, <<>>),
             SP,
             getColoredMessage(enabled, level, msg)>>)

FieldsLabel == <<"F", "i", "e", "l", "d", "s", ":">>

\* a field step that writes the header whether or not fields were given
FieldsWriteAlways(enabled, fields) ==
    <<Concat(<<ColorizeIfEnabled(<<"U+1F4CA", " ">>, enabled, BrightMagenta, <<>>),
               SP,
               ColorizeIfEnabled(FieldsLabel, enabled, BrightWhite, <<>>),
               NL,
               ColorizeIfEnabled(formatFieldsAsJSON(fields), enabled,
                                 BrightBlack, <<>>),
               NL>>)>>

\* the writes of the "if len(fields) > 0" step
FieldsWrite(enabled, fields) ==
    IF Len(fields) > 0 THEN
        <<Concat(<<ColorizeIfEnabled(<<"U+1F4CA", " ">>, enabled,
                                     BrightMagenta, <<>>),
                   SP,
                   ColorizeIfEnabled(FieldsLabel, enabled, BrightWhite, <<>>),
                   NL,
                   ColorizeIfEnabled(formatFieldsAsJSON(fields), enabled,
                                     BrightBlack, <<>>),
                   NL>>)>>
    ELSE <<>>

\* a log that resolves its location one frame short, at skip 2
logAtSkipTwo(enabled, level, color, msg, fields, now, stack) ==
    LET ci == getCallerInfo(2, <<LogFrame>> \o stack)
    IN  <<Message(enabled, level, msg, now, ci) \o NL>>
        \o FieldsWrite(enabled, fields)

\* log(level, color, msg, fields...) on a logger whose flag is enabled, at
\* time now, called by the innermost frame of stack
log(enabled, level, color, msg, fields, now, stack) ==
    LET ci == getCallerInfo(3, <<LogFrame>> \o stack)
    IN  <<Message(enabled, level, msg, now, ci) \o NL>>
        \o FieldsWrite(enabled, fields)

-----------------------------------------------------------------------------
(* NewLogger and enableWindowsANSI.  A platform is [goos, console]; on     *)
(* Windows console says how the kernel32 calls end: "ok", "getFails"       *)
(* (GetConsoleMode returns 0), "setFails" (SetConsoleMode returns 0) or    *)
(* "panics" (a LazyProc.Call panics).  A result is the flag the logger is  *)
(* left with and whether a panic leaves the function.                      *)

Platforms ==
    {[goos |-> "linux", console |-> "none"]}
    \cup [goos : {"windows"}, console : {"ok", "getFails", "setFails", "panics"}]

\* the body of enableWindowsANSI after its defer statement
ConsoleCalls(flag, platform) ==
    IF platform.console = "panics" THEN [colors |-> flag, panic |-> TRUE]
    ELSE IF platform.console = "getFails" THEN [colors |-> FALSE, panic |-> FALSE]
    ELSE IF platform.console = "setFails" THEN [colors |-> FALSE, panic |-> FALSE]
    ELSE [colors |-> flag, panic |-> FALSE]

\* a deferred function that does not recover
NoRecover(r) == r

\* the deferred function of enableWindowsANSI
Recover(r) ==
    IF r.panic THEN [colors |-> FALSE, panic |-> FALSE] ELSE r

enableWindowsANSI(flag, platform) ==
    IF platform.goos # "windows" THEN [colors |-> flag, panic |-> FALSE]
    ELSE Recover(ConsoleCalls(flag, platform))

\* the flag NewLogger's logger ends with, and whether NewLogger panics
NewLoggerResult(platform) ==
    IF platform.goos = "windows" THEN enableWindowsANSI(TRUE, platform)
    ELSE [colors |-> TRUE, panic |-> FALSE]

-----------------------------------------------------------------------------
(* The program: logger instances, their flag, and the public calls.        *)

Instances == {"l1", "l2"}

Msgs == {<<"h", "e", "l", "l", "o">>, Red \o <<"h", "i">> \o Reset}

Times == {[year |-> 2025, month |-> 9, day |-> 2, hour |-> 15, min |-> 4,
           sec |-> 5, ms |-> 7]}

MainFrame(line) ==
    Frame(<<"/", "a", "p", "p", "/", "m", "a", "i", "n", ".", "g", "o">>, line,
          <<"m", "a", "i", "n", ".", "m", "a", "i", "n">>)

HandlerFrame ==
    Frame(<<"/", "a", "p", "p", "/", "a", "p", "i", "/", "h", ".", "g", "o">>,
          120,
          <<"m", "a", "i", "n", ".", "(", "*", "S", "r", "v", ")", ".",
            "h", "a", "n", "d", "l", "e", ".", "f", "u", "n", "c", "1">>)

\* the stacks a level method is called from: main.main, and a closure of a
\* method called from main.main
UserStacks == {<<MainFrame(15)>>, <<HandlerFrame, MainFrame(20)>>}

LogFieldSet ==
    {[Key |-> KeyA, Value |-> IntOne],
     [Key |-> KeyB, Value |-> StrValue],
     [Key |-> KeyAB, Value |-> NestedValue],
     [Key |-> KeyA, Value |-> ChanValue],
     [Key |-> KeyA, Value |-> BadMarshaler]}

\* the arguments of a level call: message, fields, and with them the time of
\* the call and the stack it is made from
LogCalls ==
    [msg : Msgs, fields : SeqsUpTo(LogFieldSet, MaxLogFields), now : Times,
     stack : UserStacks]

\* the level calls made in the course of a session
SessionCalls ==
    [msg : {<<"h", "e", "l", "l", "o">>},
     fields : SeqsUpTo({[Key |-> KeyA, Value |-> IntOne]}, MaxSessionFields),
     now : Times, stack : {<<MainFrame(15)>>}]

NoPlatform == [goos |-> "none", console |-> "none"]
NoTime == [year |-> 0, month |-> 0, day |-> 0, hour |-> 0, min |-> 0,
           sec |-> 0, ms |-> 0]
NoLogCall == [msg |-> <<>>, fields |-> <<>>, now |-> NoTime, stack |-> <<>>]

\* the record of a public call
Op(name, inst, enabled, platform, level, color, frame, args) ==
    [name |-> name, inst |-> inst, enabled |-> enabled, platform |-> platform,
     level |-> level, color |-> color, frame |-> frame, msg |-> args.msg, fields |-> args.fields, now |-> args.now,
     stack |-> args.stack]

NoFrame == Frame(<<>>, 0, <<>>)

\* the record of a public call that is not a level call
Other(name, inst, enabled, platform) ==
    Op(name, inst, enabled, platform, -1, <<>>, NoFrame, NoLogCall)

NoOp == Other("none", "none", FALSE, NoPlatform)

Init ==
    /\ loggers = {}
    /\ colorsEnabled = [i \in Instances |-> FALSE]
    /\ panicked = FALSE
    /\ stdout = <<>>
    /\ op = NoOp
    /\ lin = NoLogCall
    /\ fin = <<>> /\ fout = <<>> /\ fdone = FALSE
    /\ cin = NoColorCall /\ cout = <<>> /\ cdone = FALSE
    /\ Quiet

\* logger := NewLogger() on some platform
NewLogger(i) ==
    /\ i \notin loggers
    /\ \E platform \in Platforms :
          LET r == NewLoggerResult(platform)
          IN  /\ loggers' = IF r.panic THEN loggers ELSE loggers \cup {i}
              /\ colorsEnabled' = [colorsEnabled EXCEPT ![i] = r.colors]
              /\ panicked' = (panicked \/ r.panic)
              /\ op' = Other("NewLogger", i, FALSE, platform)
    /\ stdout' = <<>>
    /\ UNCHANGED <<lin, fieldVars, colorVars, directVars, streamVars, raceVars>>

\* an assignment that reaches the flag of every instance
SetFlagOfAll(flags, i, enabled) == [j \in DOMAIN flags |-> enabled]

\* mk.colorsEnabled = enabled
SetFlag(flags, i, enabled) == [flags EXCEPT ![i] = enabled]

\* mk.ColorsEnabled()
ColorsEnabled(i) == colorsEnabled[i]

\* mk.SetColorsEnabled(enabled)
SetColorsEnabled(i) ==
    /\ i \in loggers
    /\ \E enabled \in BOOLEAN :
          /\ colorsEnabled' = SetFlag(colorsEnabled, i, enabled)
          /\ op' = Other("SetColorsEnabled", i, enabled, NoPlatform)
    /\ stdout' = <<>>
    /\ UNCHANGED <<loggers, panicked, lin, fieldVars, colorVars, directVars,
                   streamVars, raceVars>>

\* the arguments a level call is made with: those drawn for it, or else any
\* of a session's
CallArguments == IF lin # NoLogCall THEN {lin} ELSE SessionCalls

\* the public level method `name` called on instance i: it calls log with
\* its level and colour from line `line` of maklogger.go
LevelCall(i, name, fn, line, level, color) ==
    /\ i \in loggers
    /\ \E args \in CallArguments :
          /\ stdout' = log(colorsEnabled[i], level, color, args.msg,
                           args.fields, args.now,
                           <<EntryFrame(fn, line)>> \o args.stack)
          /\ op' = Op(name, i, FALSE, NoPlatform, level, color,
                      EntryFrame(fn, line), args)
    /\ UNCHANGED <<loggers, colorsEnabled, panicked, lin, fieldVars, colorVars,
                   directVars, streamVars, raceVars>>

Info(i) ==
    LevelCall(i, "Info", <<"I", "n", "f", "o">>, 148, LevelInfo, Yellow)
Warn(i) ==
    LevelCall(i, "Warn", <<"W", "a", "r", "n">>, 153, LevelWarn, Yellow)
Error(i) ==
    LevelCall(i, "Error", <<"E", "r", "r", "o", "r">>, 158, LevelError, Red)
Success(i) ==
    LevelCall(i, "Success", <<"S", "u", "c", "c", "e", "s", "s">>, 163,
              LevelSuccess, Red)
Debug(i) ==
    LevelCall(i, "Debug", <<"D", "e", "b", "u", "g">>, 168, LevelDebug, Red)
Critical(i) ==
    LevelCall(i, "Critical", <<"C", "r", "i", "t", "i", "c", "a", "l">>, 173,
              LevelCritical, Red)

EntryPoints == {"Info", "Warn", "Error", "Success", "Debug", "Critical"}

Next ==
    \E i \in Instances :
        \/ NewLogger(i)
        \/ SetColorsEnabled(i)
        \/ Info(i)
        \/ Warn(i)
        \/ Error(i)
        \/ Success(i)
        \/ Debug(i)
        \/ Critical(i)

Spec == Init /\ [][Next]_vars

-----------------------------------------------------------------------------
(* One level call on its own: Init draws the flag of a constructed logger  *)
(* and the arguments, and one of the six level methods is called.          *)

InitLog ==
    /\ loggers = {"l1"}
    /\ \E enabled \in BOOLEAN :
          colorsEnabled = [i \in Instances |-> (i = "l1") /\ enabled]
    /\ panicked = FALSE
    /\ stdout = <<>>
    /\ op = NoOp
    /\ lin \in LogCalls
    /\ fin = <<>> /\ fout = <<>> /\ fdone = FALSE
    /\ cin = NoColorCall /\ cout = <<>> /\ cdone = FALSE
    /\ Quiet

NextLog ==
    \/ op = NoOp /\ Info("l1")
    \/ op = NoOp /\ Warn("l1")
    \/ op = NoOp /\ Error("l1")
    \/ op = NoOp /\ Success("l1")
    \/ op = NoOp /\ Debug("l1")
    \/ op = NoOp /\ Critical("l1")

SpecLog == InitLog /\ [][NextLog]_vars

-----------------------------------------------------------------------------
(* Reading the output of a level call.                                     *)

IsLevelCall == op.name \in EntryPoints

\* everything the latest call wrote
Output == Concat(stdout)

\* the label the documentation gives each level method
LabelOf(name) ==
    IF name = "Info" THEN <<"I", "N", "F", "O">>
    ELSE IF name = "Success" THEN <<"S", "U", "C", "C", "E", "S", "S">>
    ELSE IF name = "Debug" THEN <<"D", "E", "B", "U", "G">>
    ELSE IF name = "Warn" THEN <<"W", "A", "R", "N", "I", "N", "G">>
    ELSE IF name = "Error" THEN <<"E", "R", "R", "O", "R">>
    ELSE <<"C", "R", "I", "T", "I", "C", "A", "L">>

\* the icon the documentation gives each level method
IconOf(name) ==
    IF name = "Info" THEN <<"U+1F4DD">>
    ELSE IF name = "Success" THEN <<"U+2705">>
    ELSE IF name = "Debug" THEN <<"U+1F41B">>
    ELSE IF name = "Warn" THEN <<"U+26A0", "U+FE0F">>
    ELSE IF name = "Error" THEN <<"U+274C">>
    ELSE <<"U+1F6D1">>

\* s followed by spaces up to w characters
PadRight(s, w) == s \o Repeat(SP, w - Len(s))

\* the description of the failure when fields do not serialize, else <<>>
FailureText(fields) ==
    IF fields = <<>> THEN <<>>
    ELSE EncodeError(<<"map", BuildFieldMap(fields, EmptyMap)>>)

\* s with every occurrence of a palette escape sequence deleted
RECURSIVE StripPalette(_)
StripPalette(s) ==
    LET starts == {i \in 1..Len(s) :
                      s[i] = ESC /\ \E p \in Palette : HasPrefixAt(s, i, p)}
    IN  IF starts = {} THEN s
        ELSE LET i == MinOf(starts)
                 p == CHOOSE q \in Palette : HasPrefixAt(s, i, q)
             IN  SubSeq(s, 1, i - 1)
                 \o StripPalette(SubSeq(s, i + Len(p), Len(s)))

\* an escape byte somewhere in a field value
RECURSIVE ValueHasEsc(_)
ValueHasEsc(v) ==
    IF v[1] = "string" \/ v[1] = "marshaler" THEN HasEsc(v[2])
    ELSE IF v[1] = "map" THEN
        \E k \in DOMAIN v[2] : HasEsc(k) \/ ValueHasEsc(v[2][k])
    ELSE IF v[1] = "array" THEN
        \E i \in 1..Len(v[2]) : ValueHasEsc(v[2][i])
    ELSE FALSE

FieldsHaveEsc(fields) ==
    \E i \in 1..Len(fields) :
        HasEsc(fields[i].Key) \/ ValueHasEsc(fields[i].Value)

-----------------------------------------------------------------------------
(* Claims about one level call, checked under SpecLog.                     *)

\* C1 (as stated): a level call with an ESC-free message made while the
\* flag is false writes the level's label and the message and no ESC byte
\* anywhere, the field block included.
C1_PlainOutputAlways ==
    (IsLevelCall /\ ~ColorsEnabled(op.inst) /\ ~HasEsc(op.msg)) =>
        /\ Contains(Output, LabelOf(op.name))
        /\ Contains(Output, op.msg)
        /\ ~HasEsc(Output)

\* C1 (amended): the same, for calls whose fields serialize or fail to
\* serialize with a description that has no ESC byte.
C1_PlainOutput ==
    (/\ IsLevelCall /\ ~ColorsEnabled(op.inst) /\ ~HasEsc(op.msg)
     /\ ~HasEsc(FailureText(op.fields))) =>
        /\ Contains(Output, LabelOf(op.name))
        /\ Contains(Output, op.msg)
        /\ ~HasEsc(Output)

\* a plain call has written a field whose string value holds an ESC byte
C1_Witness ==
    /\ IsLevelCall
    /\ ~ColorsEnabled(op.inst)
    /\ ~HasEsc(op.msg)
    /\ Len(op.fields) = 1
    /\ op.fields[1].Value = StrValue
    /\ Len(stdout) = 2

\* C2 (as stated): with colors disabled the message line is clock icon, one
\* space, timestamp, bar, level icon, one space, the label padded to 8, bar,
\* folder icon, space, file:line, space, lightning icon, space, function,
\* bar, speech-bubble icon, one space, message, newline.
C2_DocumentedLayout ==
    (IsLevelCall /\ ~ColorsEnabled(op.inst)) =>
        stdout[1] =
            Concat(<< <<"U+1F552">>, SP, FormatTime(op.now), Bar,
                      IconOf(op.name), SP, PadRight(LabelOf(op.name), 8), Bar,
                      <<"U+1F4C1">>, SP, Base(op.stack[1].file), <<":">>,
                      Itoa(op.stack[1].line), SP, <<"U+26A1">>, SP,
                      ShortFn(op.stack[1].fn), Bar,
                      <<"U+1F4AC">>, SP, op.msg, NL >>)

\* the second write of a call, freed of palette sequences, is the chart
\* icon, spaces, "Fields:", a newline, the block and a newline
IsFieldsWrite(w, fields) ==
    \E n \in 0..3 :
        StripPalette(w) =
            StripPalette(Concat(<< <<"U+1F4CA">>, Repeat(SP, n), FieldsLabel,
                                   NL, formatFieldsAsJSON(fields), NL >>))

\* C4: a level call makes one write, the message line, when it is given no
\* fields, and two when it is given fields, the second being the "Fields:"
\* header and the serialized block; no header is written without fields,
\* and the block of no fields is empty.
C4_WritesPerCall ==
    IsLevelCall =>
        /\ formatFieldsAsJSON(<<>>) = <<>>
        /\ Len(stdout) = (IF op.fields = <<>> THEN 1 ELSE 2)
        /\ Contains(stdout[1], op.msg)
        /\ stdout[1][Len(stdout[1])] = "\n"
        /\ Occurrences(stdout[1], NL) = 1
        /\ op.fields = <<>> => ~Contains(Output, FieldsLabel)
        /\ op.fields # <<>> => IsFieldsWrite(stdout[2], op.fields)

\* a call given two fields has made its two writes
C4_Witness ==
    /\ IsLevelCall
    /\ Len(op.fields) = 2
    /\ Len(stdout) = 2
    /\ Contains(stdout[2], FieldsLabel)

\* C8: for an ESC-free message and ESC-free fields, the colored output with
\* every palette escape sequence deleted is, write by write, the output the
\* same call produces with colors disabled.
C8_ColorsOnlyAddEscapes ==
    (/\ IsLevelCall /\ ColorsEnabled(op.inst)
     /\ ~HasEsc(op.msg) /\ ~FieldsHaveEsc(op.fields)) =>
        LET plain == log(FALSE, op.level, op.color, op.msg, op.fields,
                         op.now, <<op.frame>> \o op.stack)
        IN  /\ Len(stdout) = Len(plain)
            /\ \A k \in 1..Len(stdout) : StripPalette(stdout[k]) = plain[k]

\* a colored call with nested fields has been made
C8_Witness ==
    /\ IsLevelCall
    /\ ColorsEnabled(op.inst)
    /\ ~HasEsc(op.msg)
    /\ Len(op.fields) = 2
    /\ ~FieldsHaveEsc(op.fields)
    /\ HasEsc(stdout[1])
    /\ HasEsc(stdout[2])

-----------------------------------------------------------------------------
(* Claims about a session of public calls, checked under Spec.             *)

C10_FlagPerInstance ==
    [][\A i \in Instances :
           IF op'.name = "SetColorsEnabled" /\ op'.inst = i
           THEN colorsEnabled'[i] = op'.enabled
           ELSE IF op'.name = "NewLogger" /\ op'.inst = i THEN TRUE
           ELSE colorsEnabled'[i] = colorsEnabled[i]]_vars

\* a level call has been made on an instance whose flag was set to false
\* while the other instance's flag is true
C10_Witness ==
    /\ loggers = Instances
    /\ IsLevelCall
    /\ ~ColorsEnabled(op.inst)
    /\ HasEsc(Output) = FALSE
    /\ \E j \in Instances : j # op.inst /\ ColorsEnabled(j)

-----------------------------------------------------------------------------
(* Calls made from inside the package: getCallerInfo and log are           *)
(* unexported, so a test of the package, or a goroutine it starts, calls   *)
(* them directly, with any skip and any Level.  Init draws the call and    *)
(* the stack it is made from, innermost frame first.                       *)

\* the greatest skip handed to getCallerInfo
MaxSkip == 4
\* the greatest Level handed to log
MaxLevel == 7

Skips == (-1)..MaxSkip
\* Level is an int: the six constants are 0..5
Levels == (-1)..MaxLevel

\* a function of the package's test file
TestFrame(fn, line) ==
    Frame(<<"/", "p", "k", "g", "/", "m", "a", "k", "l", "o", "g", "g",
          "e", "r", "/", "m", "a", "k", "l", "o", "g", "g", "e", "r", "_",
          "t", "e", "s", "t", ".", "g", "o">>, line, PkgPath \o fn)

TRunnerFrame ==
    Frame(<<"/", "g", "o", "/", "s", "r", "c", "/", "t", "e", "s", "t",
          "i", "n", "g", "/", "t", "e", "s", "t", "i", "n", "g", ".", "g",
          "o">>, 1689, <<"t", "e", "s", "t", "i", "n", "g", ".", "t", "R",
          "u", "n", "n", "e", "r">>)

\* the outermost frame of every goroutine
GoexitFrame ==
    Frame(<<"/", "g", "o", "/", "s", "r", "c", "/", "r", "u", "n", "t",
          "i", "m", "e", "/", "a", "s", "m", "_", "a", "m", "d", "6", "4",
          ".", "s">>, 1695, <<"r", "u", "n", "t", "i", "m", "e", ".", "g",
          "o", "e", "x", "i", "t">>)

\* a frame whose pc belongs to no Go function: no file, no line, and
\* runtime.FuncForPC returns nil
ForeignFrame == [file |-> <<>>, line |-> 0, fn |-> <<>>, hasFn |-> FALSE]

\* the stacks of the direct calls: a test function run by the testing
\* package; a go statement, whose callee has only runtime.goexit below it;
\* a test function entered from foreign code; a helper called by a subtest
\* closure
DirectStacks ==
    {<<TestFrame(<<"T", "e", "s", "t", "G", "e", "t", "C", "a", "l", "l",
          "e", "r", "I", "n", "f", "o">>, 229), TRunnerFrame, GoexitFrame>>,
     <<GoexitFrame>>,
     <<TestFrame(<<"T", "e", "s", "t", "G", "e", "t", "C", "a", "l", "l",
           "e", "r", "I", "n", "f", "o">>, 229), ForeignFrame, GoexitFrame>>,
     <<TestFrame(<<"c", "a", "p", "t", "u", "r", "e", "O", "u", "t", "p",
           "u", "t">>, 17),
       TestFrame(<<"T", "e", "s", "t", "L", "o", "g", "L", "e", "v", "e",
             "l", "s", ".", "f", "u", "n", "c",
             "1">>, 75), TRunnerFrame, GoexitFrame>>}

DirectFieldSeqs ==
    {<<>>, <<[Key |-> KeyA, Value |-> IntOne]>>,
     <<[Key |-> KeyB, Value |-> IntOne], [Key |-> KeyA, Value |-> ChanValue]>>}

\* a direct call: getCallerInfo(skip), or mk.log(level, color, msg, fields...)
DirectCalls ==
    [kind : {"getCallerInfo"}, skip : Skips, stack : DirectStacks,
     level : {LevelInfo}, msg : {<<>>}, fields : {<<>>}, now : {NoTime}]
    \cup
    [kind : {"log"}, skip : {3}, stack : DirectStacks,
     level : Levels, msg : Msgs, fields : DirectFieldSeqs, now : Times]

InitDirect ==
    /\ loggers = {"l1"}
    /\ \E enabled \in BOOLEAN :
          colorsEnabled = [i \in Instances |-> (i = "l1") /\ enabled]
    /\ panicked = FALSE
    /\ stdout = <<>>
    /\ op = NoOp
    /\ lin = NoLogCall
    /\ fin = <<>> /\ fout = <<>> /\ fdone = FALSE
    /\ cin = NoColorCall /\ cout = <<>> /\ cdone = FALSE
    /\ din \in DirectCalls
    /\ dci = <<>>
    /\ ddone = FALSE
    /\ NoStream /\ NoRace

\* file, line, function := getCallerInfo(skip)
CallGetCallerInfo ==
    /\ ~ddone
    /\ din.kind = "getCallerInfo"
    /\ dci' = getCallerInfo(din.skip, din.stack)
    /\ ddone' = TRUE
    /\ UNCHANGED <<din, mainVars, fieldVars, colorVars, streamVars, raceVars>>

\* mk.log(level, Yellow, msg, fields...)
CallLog ==
    /\ ~ddone
    /\ din.kind = "log"
    /\ stdout' = log(colorsEnabled["l1"], din.level, Yellow, din.msg,
                     din.fields, din.now, din.stack)
    /\ dci' = getCallerInfo(3, <<LogFrame>> \o din.stack)
    /\ ddone' = TRUE
    /\ UNCHANGED <<din, loggers, colorsEnabled, panicked, op, lin, fieldVars,
                   colorVars, streamVars, raceVars>>

NextDirect == CallGetCallerInfo \/ CallLog

SpecDirect == InitDirect /\ [][NextDirect]_vars

-----------------------------------------------------------------------------
(* Claims about direct calls, checked under SpecDirect.                    *)

LoggedDirectly == ddone /\ din.kind = "log"
ResolvedDirectly == ddone /\ din.kind = "getCallerInfo"

DefinedLevels ==
    {LevelInfo, LevelSuccess, LevelDebug, LevelCritical, LevelError, LevelWarn}

\* the message line around a level segment and a message segment
LineAround(enabled, levelSegment, messageSegment, now, ci) ==
    Concat(<<ColorizeIfEnabled(<<"U+1F552",
          " ">>, enabled, BrightGreen, <<>>),
             SP, ColorizeIfEnabled(FormatTime(now), enabled, Green, <<>>),
             Bar, levelSegment, Bar, Module(enabled, ci), Bar,
             ColorizeIfEnabled(<<"U+1F4AC",
                   " ">>, enabled, BrightWhite, <<>>),
             SP, messageSegment, NL>>)

\* C11: for a Level outside the six constants log returns normally, having
\* made its writes; the level segment and the message segment are both the
\* text UNDEFINED without any escape sequence, whatever the flag is, and the
\* line is the same whatever the message: the message is not in it.
C11_UndefinedLevel ==
    (LoggedDirectly /\ din.level \notin DefinedLevels) =>
        LET enabled == ColorsEnabled("l1")
        IN  /\ ~panicked
            /\ getColoredLevel(enabled, din.level) = Undefined
            /\ getColoredMessage(enabled, din.level, din.msg) = Undefined
            /\ ~HasEsc(Undefined)
            /\ Len(stdout) = (IF din.fields = <<>> THEN 1 ELSE 2)
            /\ stdout[1] = LineAround(enabled, Undefined, Undefined,
                                      din.now, dci)
            /\ ~Contains(stdout[1], din.msg)

\* log has been called with Level 6 and fields, colors enabled
C11_Witness ==
    /\ LoggedDirectly
    /\ din.level = 6
    /\ ColorsEnabled("l1")
    /\ din.fields # <<>>
    /\ Len(stdout) = 2
    /\ Occurrences(stdout[1], Undefined) = 2

-----------------------------------------------------------------------------
(* Claims about the location a level call shows, checked under SpecLog.    *)

\* the location segment as documented, colors aside
LocationText(file, line, fn) ==
    Concat(<<Bar, <<"U+1F4C1">>, SP, file, <<":">>, Itoa(line), SP,
             <<"U+26A1">>, SP, fn, Bar>>)

\* the frames of the library on the stack of a level call
LibraryFrames == {CallerInfoFrame, LogFrame, op.frame}

\* C12: for each of the six level methods, skip 3 in log resolves to the
\* frame that called the level method (getCallerInfo is skip 0, log skip 1,
\* the level method skip 2): the line shows that frame's short file name,
\* its line and its function, and never a frame of the library.
C12_CallerOfEntryPoint ==
    IsLevelCall =>
        LET caller == op.stack[1]
            ci == getCallerInfo(3, <<LogFrame, op.frame>> \o op.stack)
        IN  /\ ci = [file |-> Base(caller.file), line |-> caller.line,
                     function |-> caller.fn]
            /\ \A f \in LibraryFrames :
                   ci.function # f.fn /\ <<ci.file, ci.line>> # <<Base(f.file), f.line>>
            /\ Contains(StripPalette(stdout[1]),
                        LocationText(Base(caller.file), caller.line,
                                     ShortFn(caller.fn)))

\* Critical has been called from the closure in h.go and shows its line
C12_Witness ==
    /\ IsLevelCall
    /\ op.name = "Critical"
    /\ op.stack[1] = HandlerFrame
    /\ Contains(StripPalette(stdout[1]),
                <<"h", ".", "g", "o", ":", "1", "2",
                      "0">> \o SP \o <<"U+26A1">> \o SP \o <<"f", "u",
                      "n", "c", "1">>)

\* the innermost frame is a function of the package's test file
CalledByTestFunction ==
    Contains(din.stack[1].file, <<"_", "t", "e", "s", "t", ".", "g", "o">>)

\* C13 (as stated): getCallerInfo(0) called directly from a function F of
\* the test file returns F's location: the short name of F's file, which
\* contains "test.go" and is not "???", the positive line of the call in F,
\* and F's function name, which contains "Test".
C13_SkipZeroIsCaller ==
    (ResolvedDirectly /\ din.skip = 0 /\ CalledByTestFunction) =>
        LET F == din.stack[1]
        IN  /\ dci.file # Sentinel
            /\ dci.file = Base(F.file)
            /\ Contains(dci.file, <<"t", "e", "s", "t", ".", "g", "o">>)
            /\ dci.line > 0
            /\ dci.line = F.line
            /\ dci.function = F.fn
            /\ Contains(F.fn, <<"T", "e", "s",
                  "t">>) => Contains(dci.function, <<"T", "e", "s", "t">>)

\* the sentinel triple ("???", 0, "???")
SentinelInfo == [file |-> Sentinel, line |-> 0, function |-> Sentinel]

\* the frames runtime.Caller can ascend to in the direct call: getCallerInfo,
\* log when the call is log's, and the stack of the caller
FramesAbove ==
    Len(din.stack) + (IF din.kind = "log" THEN 2 ELSE 1)

\* C14: getCallerInfo returns a triple for every skip and no panic leaves
\* it; when the stack has no frame at the requested skip the triple is
\* exactly ("???", 0, "???"); log in that situation writes its whole line,
\* with ??? as file, 0 as line and ??? as function, and then the field block
\* if fields were given.
C14_SentinelWhenNoFrame ==
    ddone =>
        /\ ~panicked
        /\ DOMAIN dci = {"file", "line", "function"}
        /\ din.skip >= FramesAbove => dci = SentinelInfo
        /\ (din.kind = "log" /\ din.skip >= FramesAbove) =>
              LET enabled == ColorsEnabled("l1")
              IN  /\ stdout[1] =
                         LineAround(enabled,
                                    getColoredLevel(enabled, din.level),
                                    getColoredMessage(enabled, din.level,
                                                      din.msg),
                                    din.now, SentinelInfo)
                  /\ Contains(StripPalette(stdout[1]),
                              LocationText(Sentinel, 0, Sentinel))
                  /\ Len(stdout) = (IF din.fields = <<>> THEN 1 ELSE 2)
                  /\ din.fields # <<>> => IsFieldsWrite(stdout[2], din.fields)

\* log was the function of a go statement: below it there is only
\* runtime.goexit, its location is the sentinel, and it wrote line and block
C14_Witness ==
    /\ LoggedDirectly
    /\ din.stack = <<GoexitFrame>>
    /\ din.fields # <<>>
    /\ dci = SentinelInfo
    /\ Len(stdout) = 2
    /\ Contains(StripPalette(stdout[1]), <<"?", "?", "?", ":", "0">>)

-----------------------------------------------------------------------------
(* Claims about fields that do not serialize, checked under SpecLog.       *)

\* some value of the sequence is one json.Marshal rejects
HasBadValue(fields) ==
    \E i \in 1..Len(fields) : EncodeError(fields[i].Value) # <<>>

\* the three lines of the fallback block for failure description e
FallbackLines(e) ==
    << <<" ", " ", "{">>,
       <<" ", " ", " ", " ", "\"", "e", "r", "r", "o", "r", "\"", ":",
             " ", "\"", "f", "a", "i", "l", "e", "d", " ", "t", "o", " ",
             "m", "a", "r", "s", "h", "a", "l", " ", "f", "i", "e", "l",
             "d", "s", ":", " ">> \o e \o <<"\"">>,
       <<" ", " ", "}">> >>

\* what C15 says of a level call whose fields are rendered by the fallback
FallbackRendered ==
    LET block == formatFieldsAsJSON(op.fields)
    IN  /\ ~panicked
        /\ Lines(block) = FallbackLines(FailureText(op.fields))
        /\ FailureText(op.fields) # <<>>
        /\ TopKeys(block) = << <<"e", "r", "r", "o", "r">> >>
        /\ \A i \in 1..Len(op.fields) :
               ~Contains(block, Quote(op.fields[i].Key) \o <<":">>)
        /\ Len(stdout) = 2
        /\ Contains(stdout[1], op.msg)
        /\ StripPalette(stdout[2]) =
               StripPalette(Concat(<< <<"U+1F4CA", " ">>, SP, FieldsLabel, NL,
                                      block, NL >>))

-----------------------------------------------------------------------------
(* Goroutines calling level methods on one logger.  log takes no lock: a   *)
(* call is its fmt.Println, then, when it has fields, its fmt.Printf, and  *)
(* another goroutine can run between the two.  Each of the two is one      *)
(* Write on os.Stdout, which the file serializes against other Writes.     *)

Goroutines == {"g1", "g2"}

\* the level methods the goroutines call: name, line of the mk.log call,
\* Level and Color
StreamMethods ==
    {[name |-> "Info", fn |-> <<"I", "n", "f",
          "o">>, line |-> 148, level |-> LevelInfo,
      color |-> Yellow],
     [name |-> "Error", fn |-> <<"E", "r", "r", "o",
           "r">>, line |-> 158, level |-> LevelError,
      color |-> Red]}

\* a function literal started by a go statement in main
GoFuncFrame == Frame(<<"/", "a", "p", "p", "/", "m", "a", "i", "n", ".",
      "g", "o">>, 31, <<"m", "a", "i", "n", ".", "m", "a", "i", "n", ".",
      "f", "u", "n", "c", "1">>)

StreamCalls ==
    [method : StreamMethods, msg : {<<"h", "e", "l", "l", "o">>},
     fields : SeqsUpTo({[Key |-> KeyA, Value |-> IntOne]}, MaxSessionFields),
     now : Times, stack : {<<GoFuncFrame, GoexitFrame>>}]

InitStream ==
    /\ loggers = {"l1"}
    /\ \E enabled \in BOOLEAN :
          colorsEnabled = [i \in Instances |-> (i = "l1") /\ enabled]
    /\ panicked = FALSE
    /\ stdout = <<>>
    /\ op = NoOp
    /\ lin = NoLogCall
    /\ fin = <<>> /\ fout = <<>> /\ fdone = FALSE
    /\ cin = NoColorCall /\ cout = <<>> /\ cdone = FALSE
    /\ NoDirect /\ NoRace
    /\ stream = <<>>
    /\ gcall \in [Goroutines -> StreamCalls]
    /\ gpc = [g \in Goroutines |-> "called"]

\* what the level call of goroutine g writes
WritesOf(g) ==
    LET c == gcall[g]
    IN  log(colorsEnabled["l1"], c.method.level, c.method.color, c.msg,
            c.fields, c.now,
            <<EntryFrame(c.method.fn, c.method.line)>> \o c.stack)

\* goroutine g runs log up to and including fmt.Println(message)
Println(g) ==
    /\ gpc[g] = "called"
    /\ stream' = Append(stream, [by |-> g, text |-> WritesOf(g)[1]])
    /\ gpc' = [gpc EXCEPT ![g] = IF Len(gcall[g].fields) > 0 THEN "printed"
                                 ELSE "returned"]
    /\ UNCHANGED <<gcall, mainVars, fieldVars, colorVars, directVars, raceVars>>

\* goroutine g runs the rest of log: the fmt.Printf of the fields
Printf(g) ==
    /\ gpc[g] = "printed"
    /\ stream' = Append(stream, [by |-> g, text |-> WritesOf(g)[2]])
    /\ gpc' = [gpc EXCEPT ![g] = "returned"]
    /\ UNCHANGED <<gcall, mainVars, fieldVars, colorVars, directVars, raceVars>>

NextStream == \E g \in Goroutines : Println(g) \/ Printf(g)

SpecStream == InitStream /\ [][NextStream]_vars

\* the places in the stream where goroutine g wrote
WrittenBy(g) == {k \in 1..Len(stream) : stream[k].by = g}

\* C16 (as stated): the records of concurrent level calls are not
\* interleaved: the message line of a call with fields is followed in the
\* stream by the Fields block of the same call, no write of another call
\* standing between the two.
C16_RecordsNotInterleaved ==
    \A g \in Goroutines :
        (gpc[g] = "returned" /\ Len(gcall[g].fields) > 0) =>
            /\ Cardinality(WrittenBy(g)) = 2
            /\ \A k \in WrittenBy(g) :
                   Contains(stream[k].text, gcall[g].msg) =>
                       /\ k + 1 \in WrittenBy(g)
                       /\ Contains(stream[k + 1].text, FieldsLabel)

-----------------------------------------------------------------------------
(* A level call running while SetColorsEnabled is called on the same       *)
(* logger.  log reads mk.colorsEnabled once for every segment it builds,   *)
(* in the order the statements and their arguments stand: five reads for   *)
(* the location, six for the line (clock, timestamp, level icon, label,    *)
(* speech bubble, message), three for the field write (chart icon,         *)
(* "Fields:", block).  The flag is a plain bool under no lock, so the      *)
(* unsynchronized reads and the write race; each read yields the flag as   *)
(* some interleaving of the reads and the writes leaves it.                *)

\* the most SetColorsEnabled calls made while the level call runs
MaxSets == 2

LineReads == 11
AllReads == 14

\* the icon, label and colors getColoredLevel and getColoredMessage give a
\* defined level
LevelPresentation(level) ==
    IF level = LevelInfo THEN
        [icon |-> <<"U+1F4DD", " ">>, iconFg |-> BrightBlue,
         label |-> <<"I", "N", "F", "O", " ", " ", " ",
               " ">>, labelFg |-> BoldWhite, labelBg |-> BgBlue,
         msgFg |-> BrightWhite, msgBg |-> <<>>]
    ELSE IF level = LevelSuccess THEN
        [icon |-> <<"U+2705", " ">>, iconFg |-> BrightGreen,
         label |-> <<"S", "U", "C", "C", "E", "S", "S",
               " ">>, labelFg |-> BoldWhite, labelBg |-> BgGreen,
         msgFg |-> BrightGreen, msgBg |-> <<>>]
    ELSE IF level = LevelDebug THEN
        [icon |-> <<"U+1F41B", " ">>, iconFg |-> BrightMagenta,
         label |-> <<"D", "E", "B", "U", "G", " ", " ",
               " ">>, labelFg |-> BoldWhite, labelBg |-> BgMagenta,
         msgFg |-> BrightMagenta, msgBg |-> <<>>]
    ELSE IF level = LevelCritical THEN
        [icon |-> <<"U+1F6D1", " ">>, iconFg |-> BrightRed,
         label |-> <<"C", "R", "I", "T", "I", "C", "A",
               "L">>, labelFg |-> BoldWhite, labelBg |-> BgBrightRed,
         msgFg |-> BrightRed, msgBg |-> <<BgBlack>>]
    ELSE IF level = LevelError THEN
        [icon |-> <<"U+274C", " ">>, iconFg |-> BrightRed,
         label |-> <<"E", "R", "R", "O", "R", " ", " ",
               " ">>, labelFg |-> BoldWhite, labelBg |-> BgRed,
         msgFg |-> BrightRed, msgBg |-> <<>>]
    ELSE
        [icon |-> <<"U+26A0", "U+FE0F", " ">>, iconFg |-> BrightYellow,
         label |-> <<"W", "A", "R", "N", "I", "N", "G",
               " ">>, labelFg |-> Bold, labelBg |-> BgYellow,
         msgFg |-> BrightYellow, msgBg |-> <<>>]

\* the location segment, r[1..5] being the flag as read for its five parts
ModuleReads(r, ci) ==
    Concat(<<ColorizeIfEnabled(<<"U+1F4C1">>, r[1], BrightBlue, <<>>), SP,
             ColorizeIfEnabled(ci.file, r[2], Cyan, <<>>), <<":">>,
             ColorizeIfEnabled(Itoa(ci.line), r[3], BrightCyan, <<>>), SP,
             ColorizeIfEnabled(<<"U+26A1">>, r[4], BrightYellow, <<>>), SP,
             ColorizeIfEnabled(ShortFn(ci.function), r[5], Magenta, <<>>)>>)

\* the message line, r[6..11] being the flag as read for clock, timestamp,
\* level icon, label, speech bubble and message
MessageReads(r, level, msg, now, ci) ==
    LET p == LevelPresentation(level)
    IN  Concat(<<ColorizeIfEnabled(<<"U+1F552",
          " ">>, r[6], BrightGreen, <<>>),
                 SP, ColorizeIfEnabled(FormatTime(now), r[7], Green, <<>>),
                 Bar,
                 Sprintf2(ColorizeIfEnabled(p.icon, r[8], p.iconFg, <<>>),
                          ColorizeIfEnabled(p.label, r[9], p.labelFg,
                                            <<p.labelBg>>)),
                 Bar, ModuleReads(r, ci), Bar,
                 ColorizeIfEnabled(<<"U+1F4AC",
                       " ">>, r[10], BrightWhite, <<>>),
                 SP, ColorizeIfEnabled(msg, r[11], p.msgFg, p.msgBg)>>)

\* the field write, r[12..14] being the flag as read for chart icon,
\* "Fields:" and block
FieldsReads(r, fields) ==
    Concat(<<ColorizeIfEnabled(<<"U+1F4CA",
          " ">>, r[12], BrightMagenta, <<>>),
             SP, ColorizeIfEnabled(FieldsLabel, r[13], BrightWhite, <<>>), NL,
             ColorizeIfEnabled(formatFieldsAsJSON(fields), r[14], BrightBlack,
                               <<>>),
             NL>>)

\* the level calls that run against the setter
RaceCalls ==
    {Op(m.name, "l1", FALSE, NoPlatform, m.level, m.color,
        EntryFrame(m.fn, m.line), a) :
        m \in StreamMethods \cup
              {[name |-> "Warn", fn |-> <<"W", "a", "r", "n">>, line |-> 153,
                level |-> LevelWarn, color |-> Yellow],
               [name |-> "Success", fn |-> <<"S", "u", "c", "c", "e", "s",
                     "s">>, line |-> 163,
                level |-> LevelSuccess, color |-> Red],
               [name |-> "Debug", fn |-> <<"D", "e", "b", "u",
                     "g">>, line |-> 168,
                level |-> LevelDebug, color |-> Red],
               [name |-> "Critical", fn |-> <<"C", "r", "i", "t", "i",
                     "c", "a", "l">>, line |-> 173,
                level |-> LevelCritical, color |-> Red]},
        a \in SessionCalls}

InitRace ==
    /\ loggers = {"l1"}
    /\ \E enabled \in BOOLEAN :
          colorsEnabled = [i \in Instances |-> (i = "l1") /\ enabled]
    /\ panicked = FALSE
    /\ stdout = <<>>
    /\ op \in RaceCalls
    /\ lin = NoLogCall
    /\ fin = <<>> /\ fout = <<>> /\ fdone = FALSE
    /\ cin = NoColorCall /\ cout = <<>> /\ cdone = FALSE
    /\ NoDirect /\ NoStream
    /\ rpc = "line"
    /\ reads = <<>>
    /\ setsDuring = 0

\* a read that takes the flag once and keeps it for the rest of the call
ReadFlagOnce(flags, i, seen) == IF seen = <<>> THEN flags[i] ELSE seen[1]

\* the operand mk.colorsEnabled, evaluated after the reads in seen
ReadFlag(flags, i, seen) == flags[i]

\* log evaluates mk.colorsEnabled for its next segment
ReadColorsEnabled ==
    /\ rpc \in {"line", "fields"}
    /\ reads' = Append(reads, ReadFlag(colorsEnabled, op.inst, reads))
    /\ rpc' = IF Len(reads') = LineReads THEN "println"
              ELSE IF Len(reads') = AllReads THEN "printf"
              ELSE rpc
    /\ UNCHANGED <<loggers, colorsEnabled, panicked, stdout, op, lin,
                   setsDuring, fieldVars, colorVars, directVars, streamVars>>

\* fmt.Println(message)
PrintlnLine ==
    /\ rpc = "println"
    /\ stdout' = <<MessageReads(reads, op.level, op.msg, op.now,
                                getCallerInfo(3, <<LogFrame, op.frame>>
                                                 \o op.stack)) \o NL>>
    /\ rpc' = IF Len(op.fields) > 0 THEN "fields" ELSE "returned"
    /\ UNCHANGED <<loggers, colorsEnabled, panicked, op, lin, reads,
                   setsDuring, fieldVars, colorVars, directVars, streamVars>>

\* fmt.Printf("%s %s\n%s\n", ...)
PrintfFields ==
    /\ rpc = "printf"
    /\ stdout' = Append(stdout, FieldsReads(reads, op.fields))
    /\ rpc' = "returned"
    /\ UNCHANGED <<loggers, colorsEnabled, panicked, op, lin, reads,
                   setsDuring, fieldVars, colorVars, directVars, streamVars>>

\* another goroutine calls mk.SetColorsEnabled(enabled) meanwhile
SetConcurrently ==
    /\ rpc # "returned"
    /\ setsDuring < MaxSets
    /\ \E enabled \in BOOLEAN :
          colorsEnabled' = SetFlag(colorsEnabled, op.inst, enabled)
    /\ setsDuring' = setsDuring + 1
    /\ UNCHANGED <<loggers, panicked, stdout, op, lin, rpc, reads,
                   fieldVars, colorVars, directVars, streamVars>>

NextRace ==
    \/ ReadColorsEnabled
    \/ PrintlnLine
    \/ PrintfFields
    \/ SetConcurrently

SpecRace == InitRace /\ [][NextRace]_vars

-----------------------------------------------------------------------------
(* Claims about the flag race, checked under SpecRace.                     *)

Returned == rpc = "returned"

\* how many of the reads from..to found the flag true
TrueReads(from, to) ==
    Cardinality({k \in from..to : k <= Len(reads) /\ reads[k]})

\* a segment is wrapped in escape sequences exactly when its own read of
\* the flag was true: every wrapped segment ends with one Reset
SegmentsFollowReads ==
    Returned =>
        /\ Len(reads) = (IF op.fields = <<>> THEN LineReads ELSE AllReads)
        /\ Occurrences(stdout[1], Reset) = TrueReads(1, LineReads)
        /\ op.fields # <<>> =>
               Occurrences(stdout[2], Reset) = TrueReads(LineReads + 1, AllReads)

\* without a SetColorsEnabled during the call the record is the one log
\* renders from a single flag: wrapped in every segment, or free of ESC
UniformWithoutSetter ==
    (Returned /\ setsDuring = 0) =>
        LET enabled == ColorsEnabled(op.inst)
        IN  /\ stdout = log(enabled, op.level, op.color, op.msg, op.fields,
                            op.now, <<op.frame>> \o op.stack)
            /\ enabled => TrueReads(1, AllReads) = Len(reads)
            /\ ~enabled => ~HasEsc(Output)

\* C17: log reads the flag anew for each segment and keeps no snapshot:
\* each segment takes the flag as it is when the segment is built, so a
\* SetColorsEnabled during the call shows in the segments built after it;
\* with no SetColorsEnabled during the call the record is wrapped in all
\* its segments or holds no escape sequence at all.
C17_FlagReadPerSegment ==
    /\ [](SegmentsFollowReads /\ UniformWithoutSetter)
    /\ [][reads' # reads =>
              reads' = Append(reads, colorsEnabled[op.inst])]_vars

\* one record with a colored location and a plain message and field block:
\* the flag was set to false while the call was running
C17_Witness ==
    /\ Returned
    /\ setsDuring > 0
    /\ Len(stdout) = 2
    /\ reads[1] /\ ~reads[LineReads] /\ ~reads[AllReads]
    /\ Contains(stdout[1], BrightBlue \o <<"U+1F4C1">> \o Reset)
    /\ Contains(stdout[1], <<"U+1F4AC", " ">> \o SP \o op.msg \o NL)
    /\ ~HasEsc(stdout[2])

-----------------------------------------------------------------------------
(* The function name a line shows, checked under SpecDirect, where the     *)
(* resolved names are dotted names and the sentinel.                       *)

\* the places of the dots in a name
DotsIn(name) == {i \in 1..Len(name) : name[i] = "."}

\* C18: the function name shown after the lightning icon is the part of
\* the name getCallerInfo returned that follows its last dot, so it holds
\* no dot and the package path, receiver and enclosing functions are gone;
\* a name without a dot, the sentinel ??? among them, is shown as it is.
C18_ShortFunctionName ==
    LoggedDirectly =>
        LET fn == dci.function
            shown == ShortFn(fn)
            line == StripPalette(stdout[1])
        IN  /\ DotsIn(shown) = {}
            /\ DotsIn(fn) # {} =>
                   shown = SubSeq(fn, MaxOf(DotsIn(fn)) + 1, Len(fn))
            /\ DotsIn(fn) = {} => shown = fn
            /\ fn = Sentinel => shown = Sentinel
            /\ Contains(line, SP \o <<"U+26A1">> \o SP \o shown \o Bar)
            /\ shown # fn => ~Contains(line, <<"U+26A1">> \o SP \o fn)

\* the line of a call resolved to the subtest closure shows func1
C18_Witness ==
    /\ LoggedDirectly
    /\ dci.function = PkgPath \o <<"T", "e", "s", "t", "L", "o", "g", "L",
          "e", "v", "e", "l", "s", ".", "f", "u", "n", "c", "1">>
    /\ Cardinality(DotsIn(dci.function)) > 2
    /\ Contains(StripPalette(stdout[1]),
                <<"U+26A1">> \o SP \o <<"f", "u", "n", "c", "1">> \o Bar)

=============================================================================
